---- MODULE Spec2Model ----
(***************************************************************************)
(* A model of w3af's plugin core:                                          *)
(*   - Plugin / UrlOpenerProxy   (w3af/core/controllers/plugins/plugin.py) *)
(*   - encode_as_multipart       (w3af/core/data/dc/utils/multipart.py)    *)
(* The worker pool, the knowledge base, the output manager and the url     *)
(* opener are collaborators whose code is not part of these files; they    *)
(* are modelled by their contracts.                                        *)
(***************************************************************************)
EXTENDS Integers, Sequences, FiniteSets, TLC

VARIABLES
    \* ---- Plugin instances (plugin.py, Plugin.__init__)
    uri_opener,     \* Plugin._uri_opener: None or a UrlOpenerProxy
    worker_pool,    \* Plugin.worker_pool: None or a pool
    policy,         \* which handle_url_error each plugin class defines
    klass,          \* the class of each plugin instance: its module and name
    given,          \* the url opener last handed to each plugin's set_url_opener,
                    \* as a sequence of one, empty before the first call
    eqres,          \* the last comparison self == other of two plugins, if any
    \* ---- call sites using a plugin's proxy directly
    pluginOf,       \* the plugin each call site belongs to
    spc,            \* call site position: idle / attr / returned / raised
    inflight,       \* the call each site is making or has just made
    \* ---- _send_mutants_in_threads calls and the worker pool
    callerPlugin,   \* the plugin each dispatching thread calls it on
    dpc,            \* caller position: idle / next / callback / returned / raised
    inputs,         \* the iterable each caller handed over
    dfunc,          \* the proxy whose method each caller handed over as func
    taskq,          \* the pool's task queue
    worker,         \* the task each pool thread is running (None: idle)
    produced,       \* what func did for each input of each call
    resq,           \* the pool's results for each call, in completion order
    yielded,        \* how many results the iterator has handed to the loop
    cbLog,          \* the callback invocations of each call
    cbActive,       \* the callback invocations in progress
    dexc,           \* the exception that left each call, if one did
    \* ---- the knowledge base, the output manager and the reporting threads
    kbStore,        \* kb.kb: the findings saved under each pair of locations
    reported,       \* the findings handed to om.out.report_finding, in order
    kpc,            \* thread position: idle / uniq_if / append_report
    kcall,          \* the kb_append_uniq or kb_append call a thread is in
    klog,           \* the calls made so far, in the order they started
    \* ---- a multipart container, its file objects and the encoder
    container,      \* the tokens of the container, in iteration order
    files,          \* each file object: is it closed, and its read position
    encoded         \* the last result of encode_as_multipart, if any

pluginVars == <<uri_opener, worker_pool, policy, klass, given, eqres>>
siteVars == <<pluginOf, spc, inflight>>
encodeVars == <<container, files, encoded>>
kbVars == <<kbStore, reported, kpc, kcall, klog>>
dispatchVars == <<callerPlugin, dpc, inputs, dfunc, taskq, worker, produced,
                  resq, yielded, cbLog, cbActive, dexc>>

-----------------------------------------------------------------------------
\* Bounds of the model

MaxTasks == 2      \* mutants handed to the pool by all dispatch calls together
PoolSize == 2      \* threads of the worker pool
MaxKbCalls == 3    \* kb_append_uniq and kb_append calls made by all threads
MaxTokens == 3     \* tokens of the multipart container

Plugins == {"pA", "pB"}
Sites == {"s1", "s2"}
Callers == {"c1", "c2"}
Workers == 1..PoolSize
KThreads == {"t1", "t2"}
LocsA == {"la"}
LocsB == {"lb", "lc"}
Infos == {[url |-> "u1", var |-> "v1"], [url |-> "u1", var |-> "v2"]}
Filters == {"VAR", "URL"}
Openers == {"x1", "x2"}
Pools == {"pool"}
URIs == {"u1", "u2"}
Policies == {"default", "override"}

None == [kind |-> "None"]

Pool(name) == [kind |-> "pool", name |-> name]

\* The class names of the plugins of a scan
ClassOf == [p \in Plugins |-> IF p = "pA" THEN "sqli" ELSE "xss"]

\* A plugin class: the module that defines it and its __name__
Class(module, name) == [module |-> module, name |-> name]

\* The classes of the plugins of a scan: audit plugins
ScanClasses ==
    [p \in Plugins |-> Class("w3af.plugins.audit", ClassOf[p])]

\* Plugin.get_name: self.__class__.__name__
get_name(p) == klass[p].name

-----------------------------------------------------------------------------
\* Values

\* A variant where every proxy holds the same plugin
UrlOpenerProxyOfFirstPlugin(url_opener, plugin_inst) ==
    [kind |-> "proxy", url_opener |-> url_opener, plugin_inst |-> "pA"]

\* A UrlOpenerProxy holds the url opener and the plugin it was built for
UrlOpenerProxy(url_opener, plugin_inst) ==
    [kind |-> "proxy", url_opener |-> url_opener, plugin_inst |-> plugin_inst]

\* The response the url opener returns for a request that succeeded
HttpResponse(uri) == [kind |-> "response", code |-> 200, uri |-> uri]

\* new_no_content_resp(uri): a synthetic 204 response for uri
new_no_content_resp(uri) == [kind |-> "response", code |-> 204, uri |-> uri]

\* Exception classes the url opener may raise
ExcClasses == {"HTTPRequestException", "ScanMustStopException"}

Exc(cls, id) == [kind |-> "exc", cls |-> cls, id |-> id]

\* The calls a call site may make: the target given positionally, by keyword
\* only, or no argument at all
NoKwargs == [k \in {} |-> "u1"]

CallShapes ==
    {[args |-> <<u>>, kwargs |-> NoKwargs] : u \in URIs}
    \cup {[args |-> <<>>, kwargs |-> [k \in {"uri"} |-> u]] : u \in URIs}
    \cup {[args |-> <<>>, kwargs |-> NoKwargs]}

\* The resource a call is directed at, as the url opener sees it
TargetOf(args, kwargs) ==
    IF Len(args) > 0 THEN args[1]
    ELSE IF "uri" \in DOMAIN kwargs THEN kwargs["uri"]
    ELSE "none"

\* What the underlying method does with a call: returns or raises
AttrOutcomes(args, kwargs, id) ==
    {[kind |-> "return", value |-> HttpResponse(TargetOf(args, kwargs))]}
    \cup {[kind |-> "raise", exc |-> Exc(c, id)] : c \in ExcClasses}

\* What an overriding handle_url_error may return: (re_raise, result)
OverrideReturns(uri) ==
    {<<r, v>> : r \in BOOLEAN,
                v \in {new_no_content_resp(uri), HttpResponse(uri)}}

-----------------------------------------------------------------------------
\* Plugin.handle_url_error and UrlOpenerProxy.__getattr__.meth

\* The base class handler: one om.out.error message, never re-raise, a 204
handle_url_error(p, uri, http_exception) ==
    [ret |-> <<FALSE, new_no_content_resp(uri)>>,
     errors |-> <<[name |-> get_name(p), uri |-> uri,
                   reason |-> http_exception]>>]

\* A subclass redefining handle_url_error: it returns the pair it chooses
handle_url_error_override(p, uri, http_exception, choice) ==
    [ret |-> choice, errors |-> <<>>]

\* self._plugin_inst.handle_url_error(uri, hre): the method of p's class
CallHandler(p, uri, hre, choice) ==
    IF policy[p] = "default"
    THEN handle_url_error(p, uri, hre)
    ELSE handle_url_error_override(p, uri, hre, choice)

\* A variant catching every exception
IsCaughtAny(exc) == TRUE

\* A variant without the except clause
IsCaughtNone(exc) == FALSE

\* except HTTPRequestException, hre: the clause matches that class only
IsCaught(exc) == exc.cls = "HTTPRequestException"

\* attr(*args, **kwargs): the method of the wrapped url opener is invoked once
AttrInvocations(proxy, args, kwargs) ==
    <<[opener |-> proxy.url_opener, target |-> TargetOf(args, kwargs)]>>

\* A variant that never re-raises
AfterHandlerReturnOnly(re_raise, res, hre) ==
    [kind |-> "return", value |-> res]

\* if re_raise: raise the exception being handled; else: return result
AfterHandler(re_raise, res, hre) ==
    IF re_raise
    THEN [kind |-> "raise", value |-> hre]
    ELSE [kind |-> "return", value |-> res]

\* The except block of meth, entered with the exception hre
ExceptBlock(proxy, args, hre, choice) ==
    IF Len(args) = 0
    THEN \* uri = args[0] on an empty tuple
         [kind |-> "raise", value |-> Exc("IndexError", hre.id),
          handled |-> <<>>, errors |-> <<>>]
    ELSE LET uri == args[1]
             h == CallHandler(proxy.plugin_inst, uri, hre, choice)
             out == AfterHandler(h.ret[1], h.ret[2], hre)
         IN [kind |-> out.kind, value |-> out.value,
             handled |-> <<[plugin |-> proxy.plugin_inst, uri |-> uri,
                            exc |-> hre, ret |-> h.ret]>>,
             errors |-> h.errors]

\* meth(*args, **kwargs), given what attr did (out) and what an overriding
\* handler would answer (choice)
meth(proxy, args, kwargs, out, choice) ==
    IF out.kind = "return"
    THEN [kind |-> "return", value |-> out.value,
          handled |-> <<>>, errors |-> <<>>]
    ELSE IF IsCaught(out.exc)
    THEN ExceptBlock(proxy, args, out.exc, choice)
    ELSE [kind |-> "raise", value |-> out.exc,
          handled |-> <<>>, errors |-> <<>>]

\* The answers a handler may give for a call with these arguments
Choices(args) ==
    IF Len(args) = 0 THEN {<<FALSE, None>>} ELSE OverrideReturns(args[1])

-----------------------------------------------------------------------------
\* Plugin configuration and direct calls through the proxy

\* Plugin.__init__
PluginInit ==
    /\ uri_opener = [p \in Plugins |-> None]
    /\ worker_pool = [p \in Plugins |-> None]
    /\ klass = ScanClasses
    /\ given = [p \in Plugins |-> <<>>]
    /\ eqres = None

SiteInit ==
    /\ spc = [s \in Sites |-> "idle"]
    /\ inflight = [s \in Sites |-> None]

\* Plugin.set_worker_pool
set_worker_pool(p, pool) ==
    /\ worker_pool' = [worker_pool EXCEPT ![p] = pool]
    /\ UNCHANGED <<uri_opener, policy, klass, given, eqres>>

\* A variant that keeps the url opener a plugin already has
set_url_opener_once(p, url_opener) ==
    /\ uri_opener' = [uri_opener EXCEPT ![p] =
                         IF @ = None THEN UrlOpenerProxy(url_opener, p) ELSE @]
    /\ given' = [given EXCEPT ![p] = <<url_opener>>]
    /\ UNCHANGED <<worker_pool, policy, klass, eqres>>

\* Plugin.set_url_opener
set_url_opener(p, url_opener) ==
    /\ uri_opener' = [uri_opener EXCEPT ![p] = UrlOpenerProxy(url_opener, p)]
    /\ given' = [given EXCEPT ![p] = <<url_opener>>]
    /\ UNCHANGED <<worker_pool, policy, klass, eqres>>

\* The plugin instances a list of plugins is built from, and their classes:
\* two classes of the same name defined in different modules, and a third
Instances == Plugins \cup {"pC"}

Classes ==
    {Class("w3af.plugins.audit", "dav"), Class("w3af.plugins.attack", "dav"),
     Class("w3af.plugins.audit", "xss")}

\* A variant that also compares the worker pools of the two plugins
eq_with_worker_pool(self, other) ==
    /\ klass[self].name = klass[other].name
    /\ worker_pool[self] = worker_pool[other]

\* Plugin.__eq__: self.__class__.__name__ == other.__class__.__name__
__eq__(self, other) == klass[self].name = klass[other].name

\* self == other is evaluated, as when a list of plugin instances is extended
Compare(self, other) ==
    /\ eqres' = [kind |-> "eq", self |-> self, other |-> other,
                 result |-> __eq__(self, other)]
    /\ UNCHANGED <<uri_opener, worker_pool, policy, klass, given>>

\* A call as it starts: what was asked, and the invocations of the wrapped
\* url opener's method made for it
StartedCall(proxy, args, kwargs) ==
    [kind |-> "call", proxy |-> proxy, args |-> args, kwargs |-> kwargs,
     invoked |-> AttrInvocations(proxy, args, kwargs),
     attr |-> None, res |-> None, handled |-> <<>>, errors |-> <<>>]

\* The same call once meth has ended with r, the wrapped method having done out
EndedCall(call, out, r) ==
    [call EXCEPT !.attr = out,
                 !.res = [kind |-> r.kind, value |-> r.value],
                 !.handled = r.handled,
                 !.errors = r.errors]

\* A call site evaluates self._uri_opener.<name>(*args, **kwargs): __getattr__
\* resolves attr on the wrapped url opener, and meth invokes it
ProxyCall(s, shape) ==
    LET p == pluginOf[s]
    IN /\ spc[s] = "idle"
       /\ uri_opener[p] # None
       /\ inflight' = [inflight EXCEPT ![s] =
                          StartedCall(uri_opener[p], shape.args, shape.kwargs)]
       /\ spc' = [spc EXCEPT ![s] = "attr"]
       /\ UNCHANGED pluginOf

\* The underlying method returns or raises, and meth runs to its end
ProxyComplete(s) ==
    /\ spc[s] = "attr"
    /\ \E out \in AttrOutcomes(inflight[s].args, inflight[s].kwargs, s),
          choice \in Choices(inflight[s].args) :
       LET c == inflight[s]
           r == meth(c.proxy, c.args, c.kwargs, out, choice)
       IN /\ inflight' = [inflight EXCEPT ![s] = EndedCall(c, out, r)]
          /\ spc' = [spc EXCEPT ![s] = IF r.kind = "return" THEN "returned"
                                                             ELSE "raised"]
    /\ UNCHANGED pluginOf

\* The call site goes on after the call returned or raised
CallSiteNext(s) ==
    /\ spc[s] \in {"returned", "raised"}
    /\ spc' = [spc EXCEPT ![s] = "idle"]
    /\ inflight' = [inflight EXCEPT ![s] = None]
    /\ UNCHANGED pluginOf

-----------------------------------------------------------------------------
\* The worker pool (threadpool.Pool.imap_unordered, threadpool.return_args)

\* The iterables a caller may hand over: sequences of at most MaxTasks mutants
InputSeqs == UNION {[1..n -> URIs] : n \in 0..MaxTasks}

RECURSIVE SumLen(_, _)
SumLen(f, S) ==
    IF S = {} THEN 0
    ELSE LET x == CHOOSE y \in S : TRUE
         IN Len(f[x]) + SumLen(f, S \ {x})

\* The mutants handed to the pool so far
Submitted == SumLen(inputs, Callers)

DispatchIdle ==
    /\ dpc = [c \in Callers |-> "idle"]
    /\ inputs = [c \in Callers |-> <<>>]
    /\ dfunc = [c \in Callers |-> None]
    /\ taskq = <<>>
    /\ worker = [w \in Workers |-> None]
    /\ produced = [c \in Callers |-> <<>>]
    /\ resq = [c \in Callers |-> <<>>]
    /\ yielded = [c \in Callers |-> 0]
    /\ cbLog = [c \in Callers |-> <<>>]
    /\ cbActive = {}
    /\ dexc = [c \in Callers |-> None]

\* imap_unordered(func, iterable): one task per element, in order
PoolTasks(c, iterable) ==
    [i \in 1..Len(iterable) |-> [caller |-> c, idx |-> i]]

\* return_args(func, **kwds)(item): the pair (args, func(*args, **kwds)), or
\* the exception func raised, which the pool hands to the iterator
return_args(item, r) ==
    [ok |-> r.kind = "return", args |-> <<item>>, value |-> r.value]

\* A pool thread takes the next task and starts func(item): the request goes
\* to the url opener
WorkerTake(w) ==
    /\ worker[w] = None
    /\ taskq # <<>>
    /\ LET t == Head(taskq)
           c == t.caller
       IN /\ worker' = [worker EXCEPT ![w] =
                           [kind |-> "task", caller |-> c, idx |-> t.idx]]
          /\ produced' = [produced EXCEPT ![c][t.idx] =
                             StartedCall(dfunc[c], <<inputs[c][t.idx]>>,
                                         NoKwargs)]
    /\ taskq' = Tail(taskq)
    /\ UNCHANGED <<callerPlugin, dpc, inputs, dfunc, resq, yielded, cbLog,
                   cbActive, dexc>>

\* func(item) ends on the pool thread; the pool queues its result for the
\* iterator of the call the task belongs to
WorkerFinish(w) ==
    /\ worker[w] # None
    /\ \E out \in AttrOutcomes(<<inputs[worker[w].caller][worker[w].idx]>>,
                                NoKwargs, <<worker[w].caller, worker[w].idx>>),
          choice \in Choices(<<inputs[worker[w].caller][worker[w].idx]>>) :
       LET c == worker[w].caller
           i == worker[w].idx
           item == inputs[c][i]
           r == meth(dfunc[c], <<item>>, NoKwargs, out, choice)
       IN /\ produced' = [produced EXCEPT ![c][i] = EndedCall(@, out, r)]
          /\ resq' = [resq EXCEPT ![c] = Append(@, return_args(item, r))]
    /\ worker' = [worker EXCEPT ![w] = None]
    /\ UNCHANGED <<callerPlugin, dpc, inputs, dfunc, taskq, yielded, cbLog,
                   cbActive, dexc>>

-----------------------------------------------------------------------------
\* Plugin._send_mutants_in_threads

\* func = return_args(func, **kwds); imap_unordered(func, iterable)
SendMutantsStart(c, iterable) ==
    LET p == callerPlugin[c]
    IN /\ dpc[c] = "idle"
       /\ worker_pool[p] # None
       /\ uri_opener[p] # None
       /\ iterable \in InputSeqs
       /\ Submitted + Len(iterable) <= MaxTasks
       /\ dpc' = [dpc EXCEPT ![c] = "next"]
       /\ inputs' = [inputs EXCEPT ![c] = iterable]
       /\ dfunc' = [dfunc EXCEPT ![c] = uri_opener[p]]
       /\ produced' = [produced EXCEPT ![c] =
                          [i \in 1..Len(iterable) |-> None]]
       /\ taskq' = taskq \o PoolTasks(c, iterable)
       /\ UNCHANGED <<callerPlugin, worker, resq, yielded, cbLog, cbActive,
                      dexc>>

\* A variant pairing each result with the mutants in the order handed over
CallbackArgsInOrder(c, item) ==
    [mutant |-> inputs[c][yielded[c] + 1], http_response |-> item.value]

\* for (mutant,), http_response in ...: the arguments of the callback
CallbackArgs(c, item) ==
    [mutant |-> item.args[1], http_response |-> item.value]

\* A variant handing the callback to another thread: the loop does not wait
\* for it
LoopNextOnPoolThread(c) ==
    /\ dpc[c] = "next"
    /\ resq[c] # <<>>
    /\ LET item == Head(resq[c])
       IN IF item.ok
          THEN /\ cbLog' = [cbLog EXCEPT ![c] =
                               Append(@, CallbackArgs(c, item))]
               /\ cbActive' = cbActive \cup
                                  {[thread |-> "pool", caller |-> c,
                                    n |-> Len(cbLog[c]) + 1]}
               /\ UNCHANGED <<dpc, dexc>>
          ELSE /\ dpc' = [dpc EXCEPT ![c] = "raised"]
               /\ dexc' = [dexc EXCEPT ![c] = item.value]
               /\ UNCHANGED <<cbLog, cbActive>>
    /\ resq' = [resq EXCEPT ![c] = Tail(@)]
    /\ yielded' = [yielded EXCEPT ![c] = @ + 1]
    /\ UNCHANGED <<callerPlugin, inputs, dfunc, taskq, worker, produced>>

\* A variant that drops a result that is an exception and goes on
LoopNextSkipFailed(c) ==
    /\ dpc[c] = "next"
    /\ resq[c] # <<>>
    /\ LET item == Head(resq[c])
       IN IF item.ok
          THEN /\ dpc' = [dpc EXCEPT ![c] = "callback"]
               /\ cbLog' = [cbLog EXCEPT ![c] =
                               Append(@, CallbackArgs(c, item))]
               /\ cbActive' = cbActive \cup
                                  {[thread |-> c, caller |-> c,
                                    n |-> Len(cbLog[c]) + 1]}
          ELSE UNCHANGED <<dpc, cbLog, cbActive>>
    /\ resq' = [resq EXCEPT ![c] = Tail(@)]
    /\ yielded' = [yielded EXCEPT ![c] = @ + 1]
    /\ UNCHANGED <<callerPlugin, inputs, dfunc, taskq, worker, produced, dexc>>

\* The loop takes the next result: the iterator yields it, and the body calls
\* callback(mutant, http_response) on the thread of the caller; or the
\* iterator raises the exception func raised, which leaves the method
LoopNext(c) ==
    /\ dpc[c] = "next"
    /\ resq[c] # <<>>
    /\ LET item == Head(resq[c])
       IN IF item.ok
          THEN /\ dpc' = [dpc EXCEPT ![c] = "callback"]
               /\ cbLog' = [cbLog EXCEPT ![c] =
                               Append(@, CallbackArgs(c, item))]
               /\ cbActive' = cbActive \cup
                                  {[thread |-> c, caller |-> c,
                                    n |-> Len(cbLog[c]) + 1]}
               /\ dexc' = dexc
          ELSE /\ dpc' = [dpc EXCEPT ![c] = "raised"]
               /\ dexc' = [dexc EXCEPT ![c] = item.value]
               /\ UNCHANGED <<cbLog, cbActive>>
    /\ resq' = [resq EXCEPT ![c] = Tail(@)]
    /\ yielded' = [yielded EXCEPT ![c] = @ + 1]
    /\ UNCHANGED <<callerPlugin, inputs, dfunc, taskq, worker, produced>>

\* callback(mutant, http_response) returns; the loop goes on
CallbackReturn(c) ==
    /\ dpc[c] = "callback"
    /\ dpc' = [dpc EXCEPT ![c] = "next"]
    /\ cbActive' = {a \in cbActive : a.thread # c}
    /\ UNCHANGED <<callerPlugin, inputs, dfunc, taskq, worker, produced,
                   resq, yielded, cbLog, dexc>>

\* A variant that stops as soon as no result is waiting
LoopEndWhenEmpty(c) ==
    /\ dpc[c] = "next"
    /\ resq[c] = <<>>
    /\ dpc' = [dpc EXCEPT ![c] = "returned"]
    /\ UNCHANGED <<callerPlugin, inputs, dfunc, taskq, worker, produced,
                   resq, yielded, cbLog, cbActive, dexc>>

\* A variant that waits for one result more than there are tasks
LoopEndOneMore(c) ==
    /\ dpc[c] = "next"
    /\ yielded[c] = Len(inputs[c]) + 1
    /\ dpc' = [dpc EXCEPT ![c] = "returned"]
    /\ UNCHANGED <<callerPlugin, inputs, dfunc, taskq, worker, produced,
                   resq, yielded, cbLog, cbActive, dexc>>

\* The iterator is exhausted once it has yielded one result per task: the
\* loop ends and the method returns
LoopEnd(c) ==
    /\ dpc[c] = "next"
    /\ yielded[c] = Len(inputs[c])
    /\ dpc' = [dpc EXCEPT ![c] = "returned"]
    /\ UNCHANGED <<callerPlugin, inputs, dfunc, taskq, worker, produced,
                   resq, yielded, cbLog, cbActive, dexc>>

-----------------------------------------------------------------------------
\* The knowledge base (kb.kb) and Plugin.kb_append_uniq / Plugin.kb_append

KbInit ==
    /\ kbStore = [l \in LocsA \X LocsB |-> <<>>]
    /\ reported = <<>>
    /\ kpc = [t \in KThreads |-> "idle"]
    /\ kcall = [t \in KThreads |-> None]
    /\ klog = <<>>

\* What filter_by compares of two findings: the url and the variable, or the
\* url alone
FilterKey(info, filter_by) ==
    IF filter_by = "VAR" THEN <<info.url, info.var>> ELSE <<info.url>>

\* kb.kb.append_uniq finds no saved finding with the same key at (a, b)
IsNew(a, b, info, filter_by) ==
    \A k \in DOMAIN kbStore[<<a, b>>] :
        FilterKey(kbStore[<<a, b>>][k], filter_by) # FilterKey(info, filter_by)

\* kb.kb.append(a, b, info)
KbAppend(a, b, info) ==
    [kbStore EXCEPT ![<<a, b>>] = Append(@, info)]

\* The record of a call in klog
KbCall(op, t, a, b, info, filter_by) ==
    [op |-> op, a |-> a, b |-> b, info |-> info,
     filter_by |-> filter_by,
     concurrent |-> \E o \in KThreads : o # t /\ kpc[o] # "idle"]

\* kb_append_uniq, line 137: kb.kb.append_uniq checks and appends in one step
kb_append_uniq_call(t, a, b, info, filter_by) ==
    /\ kpc[t] = "idle"
    /\ Len(klog) < MaxKbCalls
    /\ LET added_to_kb == IsNew(a, b, info, filter_by)
       IN /\ kbStore' = IF added_to_kb THEN KbAppend(a, b, info) ELSE kbStore
          /\ kcall' = [kcall EXCEPT ![t] =
                          [kind |-> "kb_append_uniq", info |-> info,
                           added_to_kb |-> added_to_kb]]
    /\ kpc' = [kpc EXCEPT ![t] = "uniq_if"]
    /\ klog' = Append(klog, KbCall("kb_append_uniq", t, a, b, info, filter_by))
    /\ UNCHANGED reported

\* A variant reporting whatever append_uniq answered
ShouldReportAlways(added_to_kb) == TRUE

\* if added_to_kb:
ShouldReport(added_to_kb) == added_to_kb

\* kb_append_uniq, lines 140-141: report the finding if it was added
kb_append_uniq_return(t) ==
    /\ kpc[t] = "uniq_if"
    /\ reported' = IF ShouldReport(kcall[t].added_to_kb)
                   THEN Append(reported, kcall[t].info)
                   ELSE reported
    /\ kpc' = [kpc EXCEPT ![t] = "idle"]
    /\ kcall' = [kcall EXCEPT ![t] = None]
    /\ UNCHANGED <<kbStore, klog>>

\* kb_append, line 147: kb.kb.append
kb_append_call(t, a, b, info) ==
    /\ kpc[t] = "idle"
    /\ Len(klog) < MaxKbCalls
    /\ kbStore' = KbAppend(a, b, info)
    /\ kcall' = [kcall EXCEPT ![t] =
                    [kind |-> "kb_append", info |-> info,
                     added_to_kb |-> TRUE]]
    /\ kpc' = [kpc EXCEPT ![t] = "append_report"]
    /\ klog' = Append(klog, KbCall("kb_append", t, a, b, info, "none"))
    /\ UNCHANGED reported

\* A variant of kb_append that returns without reporting
kb_append_no_report(t) ==
    /\ kpc[t] = "append_report"
    /\ kpc' = [kpc EXCEPT ![t] = "idle"]
    /\ kcall' = [kcall EXCEPT ![t] = None]
    /\ UNCHANGED <<kbStore, klog, reported>>

\* kb_append, line 148: om.out.report_finding(info)
kb_append_report(t) ==
    /\ kpc[t] = "append_report"
    /\ reported' = Append(reported, kcall[t].info)
    /\ kpc' = [kpc EXCEPT ![t] = "idle"]
    /\ kcall' = [kcall EXCEPT ![t] = None]
    /\ UNCHANGED <<kbStore, klog>>

-----------------------------------------------------------------------------
\* multipart.py: encode_as_multipart, _split_vars_files, multipart_encode.
\* A byte string is the sequence of the pieces it is put together from.

\* Token names and values: str, unicode and int objects, file objects, and
\* objects that have an isFile attribute
Str(v) == [kind |-> "str", v |-> v]
Uni(v) == [kind |-> "unicode", v |-> v]
IntObj(n) == [kind |-> "int", n |-> n]
File(fd) == [kind |-> "file", fd |-> fd]
Marked(fd) == [kind |-> "isFile", fd |-> fd]

FileIds == {"f1", "f2"}
MarkedIds == {"m1"}
TokenNames == {Str("a"), Uni("n~")}
TokenValues ==
    {Str("bob"), IntObj(7)} \cup {File(f) : f \in FileIds}
    \cup {Marked(m) : m \in MarkedIds}
Tokens == {[name |-> n, value |-> v] : n \in TokenNames, v \in TokenValues}
Containers == UNION {[1..n -> Tokens] : n \in 0..MaxTokens}
Boundaries == {"B"}

\* fd.name of each file object, as its path components, and its content
FileName(fd) ==
    CASE fd = "f1" -> <<"tmp", "report.txt">>
      [] fd = "f2" -> <<"data">>
      [] OTHER -> <<"up", "img.png">>

FileContent(fd) ==
    CASE fd = "f1" -> <<"hi">>
      [] fd = "f2" -> <<"raw">>
      [] OTHER -> <<"png">>

\* smart_str(s, encoding=DEFAULT_ENCODING): unicode is encoded to UTF-8 bytes,
\* a str is kept, any other object is turned into its str()
smart_str(x) ==
    CASE x.kind = "unicode" -> IF x.v = "n~" THEN "\\xc3\\xb1" ELSE x.v
      [] x.kind = "int" -> ToString(x.n)
      [] OTHER -> x.v

\* is_file_like(value)
is_file_like(value) == value.kind = "file"

\* hasattr(value, 'isFile')
has_isFile(value) == value.kind = "isFile"

\* A variant that does not look at value.closed
SplitTokenIgnoringClosed(acc, token) ==
    LET enc_pname == smart_str(token.name)
        value == token.value
    IN IF is_file_like(value) \/ has_isFile(value)
       THEN [acc EXCEPT !.v_files = Append(@, <<enc_pname, value.fd>>)]
       ELSE [acc EXCEPT !.v_vars = Append(@, <<enc_pname, smart_str(value)>>)]

\* One round of the loop of _split_vars_files: the token goes to v_vars or to
\* v_files
SplitToken(acc, token) ==
    LET enc_pname == smart_str(token.name)
        value == token.value
    IN IF is_file_like(value)
       THEN IF ~ files[value.fd].closed
            THEN [acc EXCEPT !.v_files = Append(@, <<enc_pname, value.fd>>)]
            ELSE [acc EXCEPT !.v_vars = Append(@, <<enc_pname, "">>)]
       ELSE IF has_isFile(value)
       THEN [acc EXCEPT !.v_files = Append(@, <<enc_pname, value.fd>>)]
       ELSE [acc EXCEPT !.v_vars = Append(@, <<enc_pname, smart_str(value)>>)]

\* _split_vars_files(data): the tokens in iteration order, split in two lists
RECURSIVE SplitFrom(_, _, _)
SplitFrom(data, i, acc) ==
    IF i > Len(data) THEN acc
    ELSE SplitFrom(data, i + 1, SplitToken(acc, data[i]))

split_vars_files(data) ==
    SplitFrom(data, 1, [v_vars |-> <<>>, v_files |-> <<>>])

\* mimetypes.guess_type(filename)[0] or 'application/octet-stream'
ContentType(filename) ==
    CASE filename = "report.txt" -> "text/plain"
      [] filename = "img.png" -> "image/png"
      [] OTHER -> "application/octet-stream"

\* fd.name.split(os.path.sep)[-1]
BaseName(path) == path[Len(path)]

NameHeader == "Content-Disposition: form-data; name=\""

\* A variant of seek that leaves the file object where it is
seek_nothing(fd, offset) ==
    IF fd \in DOMAIN files THEN files[fd].pos ELSE offset

\* fd.seek(offset): the position the file object is at afterwards
seek(fd, offset) == offset

\* fd.read() at position pos: the content from there to the end
read(fd, pos) == SubSeq(FileContent(fd), pos + 1, Len(FileContent(fd)))

\* The part multipart_encode writes for one (key, value) of _vars
VarPart(key, value, boundary) ==
    <<"--", boundary, "\r\n">>
    \o <<NameHeader, key, "\"">>
    \o <<"\r\n\r\n", value, "\r\n">>

\* The part multipart_encode writes for one (key, fd) of files: fd.seek(0),
\* then the headers and fd.read()
FilePart(key, fd, boundary) ==
    LET filename == BaseName(FileName(fd))
        content_type == ContentType(filename)
    IN <<"--", boundary, "\r\n">>
       \o <<NameHeader, key, "\"; filename=\"", filename, "\"\r\n">>
       \o <<"Content-Type: ", content_type, "\r\n">>
       \o <<"\r\n">> \o read(fd, seek(fd, 0)) \o <<"\r\n">>

RECURSIVE VarParts(_, _, _)
VarParts(_vars, i, boundary) ==
    IF i > Len(_vars) THEN <<>>
    ELSE VarPart(_vars[i][1], _vars[i][2], boundary)
         \o VarParts(_vars, i + 1, boundary)

RECURSIVE FileParts(_, _, _)
FileParts(fs, i, boundary) ==
    IF i > Len(fs) THEN <<>>
    ELSE FilePart(fs[i][1], fs[i][2], boundary)
         \o FileParts(fs, i + 1, boundary)

\* A variant writing the file parts before the parts of _vars
multipart_encode_files_first(_vars, fs, boundary) ==
    FileParts(fs, 1, boundary)
    \o VarParts(_vars, 1, boundary)
    \o <<"--", boundary, "--\r\n\r\n">>

\* multipart_encode(_vars, files, boundary): the parts of _vars, then the
\* parts of files, then the closing boundary
multipart_encode(_vars, fs, boundary) ==
    VarParts(_vars, 1, boundary)
    \o FileParts(fs, 1, boundary)
    \o <<"--", boundary, "--\r\n\r\n">>

\* encode_as_multipart(multipart_container, boundary)
encode_as_multipart(multipart_container, boundary) ==
    LET split == split_vars_files(multipart_container)
    IN multipart_encode(split.v_vars, split.v_files, boundary)

\* The file objects multipart_encode reads: each is left at its end
ReadBy(multipart_container) ==
    LET split == split_vars_files(multipart_container)
    IN {split.v_files[i][2] : i \in DOMAIN split.v_files} \cap FileIds

EncodeInit ==
    /\ container \in Containers
    /\ files = [f \in FileIds |-> [closed |-> FALSE, pos |-> 0]]
    /\ encoded = None

EncodeIdle ==
    /\ container = <<>>
    /\ files = [f \in FileIds |-> [closed |-> FALSE, pos |-> 0]]
    /\ encoded = None

\* What a caller keeps of the result it got before
Earlier(e) ==
    IF e = None THEN None
    ELSE [boundary |-> e.boundary, closed |-> e.closed, body |-> e.body]

\* A caller encodes the container
Encode(boundary) ==
    /\ encoded' = [kind |-> "encoded", boundary |-> boundary,
                   closed |-> {f \in FileIds : files[f].closed},
                   body |-> encode_as_multipart(container, boundary),
                   prev |-> Earlier(encoded)]
    /\ files' = [f \in FileIds |->
                    IF f \in ReadBy(container)
                    THEN [files[f] EXCEPT !.pos = Len(FileContent(f))]
                    ELSE files[f]]
    /\ UNCHANGED container

\* The owner of a file object reads from it
FileRead(f) ==
    /\ ~ files[f].closed
    /\ files[f].pos < Len(FileContent(f))
    /\ files' = [files EXCEPT ![f].pos = @ + 1]
    /\ UNCHANGED <<container, encoded>>

\* The owner of a file object closes it
FileClose(f) ==
    /\ ~ files[f].closed
    /\ files' = [files EXCEPT ![f].closed = TRUE]
    /\ UNCHANGED <<container, encoded>>

\* Plugins as the core leaves them once the orchestrator has handed each the
\* worker pool and the url opener (set_worker_pool, set_url_opener)
PluginsBound ==
    /\ uri_opener = [p \in Plugins |-> UrlOpenerProxy("x1", p)]
    /\ worker_pool = [p \in Plugins |-> Pool("pool")]
    /\ klass = ScanClasses
    /\ given = [p \in Plugins |-> <<"x1">>]
    /\ eqres = None

SitesIdle ==
    /\ pluginOf = [s \in Sites |-> IF s = "s1" THEN "pA" ELSE "pB"]
    /\ SiteInit

vars == <<pluginVars, siteVars, dispatchVars, kbVars, encodeVars>>

-----------------------------------------------------------------------------
\* Specification of dispatch: callers, the pool and the proxy under func

Init ==
    /\ PluginsBound
    /\ policy \in [Plugins -> Policies]
    /\ callerPlugin = [c \in Callers |-> IF c = "c1" THEN "pA" ELSE "pB"]
    /\ DispatchIdle
    /\ SitesIdle
    /\ KbInit
    /\ EncodeIdle

Next ==
    \/ \E c \in Callers, iterable \in InputSeqs :
          SendMutantsStart(c, iterable) /\ UNCHANGED <<pluginVars, siteVars, kbVars, encodeVars>>
    \/ \E w \in Workers :
          WorkerTake(w) /\ UNCHANGED <<pluginVars, siteVars, kbVars, encodeVars>>
    \/ \E w \in Workers :
          WorkerFinish(w) /\ UNCHANGED <<pluginVars, siteVars, kbVars, encodeVars>>
    \/ \E c \in Callers :
          LoopNext(c) /\ UNCHANGED <<pluginVars, siteVars, kbVars, encodeVars>>
    \/ \E c \in Callers :
          CallbackReturn(c) /\ UNCHANGED <<pluginVars, siteVars, kbVars, encodeVars>>
    \/ \E c \in Callers :
          LoopEnd(c) /\ UNCHANGED <<pluginVars, siteVars, kbVars, encodeVars>>

Spec == Init /\ [][Next]_vars

\* The same with dispatching threads on any plugins, one plugin or two, where
\* every pool thread and every caller thread keeps running, func ends and the
\* callback returns
LiveInit ==
    /\ PluginsBound
    /\ policy \in [Plugins -> Policies]
    /\ callerPlugin \in [Callers -> Plugins]
    /\ DispatchIdle
    /\ SitesIdle
    /\ KbInit
    /\ EncodeIdle

Fairness ==
    /\ \A w \in Workers :
          /\ WF_vars(WorkerTake(w) /\ UNCHANGED <<pluginVars, siteVars, kbVars, encodeVars>>)
          /\ WF_vars(WorkerFinish(w) /\ UNCHANGED <<pluginVars, siteVars, kbVars, encodeVars>>)
    /\ \A c \in Callers :
          /\ WF_vars(LoopNext(c) /\ UNCHANGED <<pluginVars, siteVars, kbVars, encodeVars>>)
          /\ WF_vars(CallbackReturn(c) /\ UNCHANGED <<pluginVars, siteVars, kbVars, encodeVars>>)
          /\ WF_vars(LoopEnd(c) /\ UNCHANGED <<pluginVars, siteVars, kbVars, encodeVars>>)

SpecLive == LiveInit /\ [][Next]_vars /\ Fairness

-----------------------------------------------------------------------------
\* Specification of the proxy: plugins are configured and call sites call
\* url opener methods through self._uri_opener

ProxyInit ==
    /\ PluginInit
    /\ policy \in [Plugins -> Policies]
    /\ SitesIdle
    /\ callerPlugin = [c \in Callers |-> "pA"]
    /\ DispatchIdle
    /\ KbInit
    /\ EncodeIdle

ProxyNext ==
    \/ \E p \in Plugins, pool \in Pools :
          set_worker_pool(p, Pool(pool)) /\ UNCHANGED <<siteVars, dispatchVars, kbVars, encodeVars>>
    \/ \E p \in Plugins, x \in Openers :
          set_url_opener(p, x) /\ UNCHANGED <<siteVars, dispatchVars, kbVars, encodeVars>>
    \/ \E s \in Sites, shape \in CallShapes :
          ProxyCall(s, shape) /\ UNCHANGED <<pluginVars, dispatchVars, kbVars, encodeVars>>
    \/ \E s \in Sites :
          ProxyComplete(s) /\ UNCHANGED <<pluginVars, dispatchVars, kbVars, encodeVars>>
    \/ \E s \in Sites :
          CallSiteNext(s) /\ UNCHANGED <<pluginVars, dispatchVars, kbVars, encodeVars>>

SpecProxy == ProxyInit /\ [][ProxyNext]_vars

-----------------------------------------------------------------------------
\* Specification of reporting: threads of the plugins report findings into
\* the shared knowledge base

KbSpecInit ==
    /\ PluginInit
    /\ policy = [p \in Plugins |-> "default"]
    /\ SitesIdle
    /\ callerPlugin = [c \in Callers |-> "pA"]
    /\ DispatchIdle
    /\ KbInit
    /\ EncodeIdle

KbNext ==
    \/ \E t \in KThreads, a \in LocsA, b \in LocsB, info \in Infos,
          filter_by \in Filters :
          /\ kb_append_uniq_call(t, a, b, info, filter_by)
          /\ UNCHANGED <<pluginVars, siteVars, dispatchVars, encodeVars>>
    \/ \E t \in KThreads :
          kb_append_uniq_return(t) /\ UNCHANGED <<pluginVars, siteVars, dispatchVars, encodeVars>>
    \/ \E t \in KThreads, a \in LocsA, b \in LocsB, info \in Infos :
          /\ kb_append_call(t, a, b, info)
          /\ UNCHANGED <<pluginVars, siteVars, dispatchVars, encodeVars>>
    \/ \E t \in KThreads :
          kb_append_report(t) /\ UNCHANGED <<pluginVars, siteVars, dispatchVars, encodeVars>>

SpecKb == KbSpecInit /\ [][KbNext]_vars

-----------------------------------------------------------------------------
\* Specification of the encoder: a container is encoded while the owners of
\* its file objects read and close them

EncodeSpecInit ==
    /\ PluginInit
    /\ policy = [p \in Plugins |-> "default"]
    /\ SitesIdle
    /\ callerPlugin = [c \in Callers |-> "pA"]
    /\ DispatchIdle
    /\ KbInit
    /\ EncodeInit

EncodeNext ==
    \/ \E boundary \in Boundaries :
          /\ Encode(boundary)
          /\ UNCHANGED <<pluginVars, siteVars, dispatchVars, kbVars>>
    \/ \E f \in FileIds :
          FileRead(f) /\ UNCHANGED <<pluginVars, siteVars, dispatchVars, kbVars>>
    \/ \E f \in FileIds :
          FileClose(f) /\ UNCHANGED <<pluginVars, siteVars, dispatchVars, kbVars>>

SpecEncode == EncodeSpecInit /\ [][EncodeNext]_vars

-----------------------------------------------------------------------------
\* Specification of plugin comparison: instances of any classes are configured
\* and compared

EqInit ==
    /\ uri_opener = [p \in Instances |-> None]
    /\ worker_pool = [p \in Instances |-> None]
    /\ policy = [p \in Instances |-> "default"]
    /\ klass \in [Instances -> Classes]
    /\ given = [p \in Instances |-> <<>>]
    /\ eqres = None
    /\ SitesIdle
    /\ callerPlugin = [c \in Callers |-> "pA"]
    /\ DispatchIdle
    /\ KbInit
    /\ EncodeIdle

EqNext ==
    \/ \E p \in Instances, pool \in Pools :
          set_worker_pool(p, Pool(pool)) /\ UNCHANGED <<siteVars, dispatchVars, kbVars, encodeVars>>
    \/ \E p \in Instances, x \in Openers :
          set_url_opener(p, x) /\ UNCHANGED <<siteVars, dispatchVars, kbVars, encodeVars>>
    \/ \E self \in Instances, other \in Instances :
          Compare(self, other) /\ UNCHANGED <<siteVars, dispatchVars, kbVars, encodeVars>>

SpecEq == EqInit /\ [][EqNext]_vars

-----------------------------------------------------------------------------
\* Properties of _send_mutants_in_threads (checked under Spec)

Count(seq, x) == Cardinality({i \in DOMAIN seq : seq[i] = x})

\* The task of the i-th mutant of c's call has run to its end
TaskEnded(c, i) == produced[c][i] # None /\ produced[c][i].res # None

\* The mutants of c's call for which func returned a response
Answered(c) ==
    {i \in DOMAIN inputs[c] :
        TaskEnded(c, i) /\ produced[c][i].res.kind = "return"}

\* The pair the callback is owed for the i-th mutant: the mutant and what
\* func returned for it
OwedPair(c, i) ==
    [mutant |-> inputs[c][i], http_response |-> produced[c][i].res.value]

\* The number of answered mutants of c's call whose owed pair is x
Owed(c, x) == Cardinality({i \in Answered(c) : OwedPair(c, i) = x})

\* C1: the callback is invoked once per input, with the pair (input, result of
\* func on that input). At any time no pair has been delivered more often
\* than func produced it and every delivered response answers the mutant it
\* comes with; when the call has returned, the delivered pairs are exactly
\* the produced ones, one per input, whatever the order of completion.
C1_CallbackOncePerInput ==
    \A c \in Callers :
        /\ \A j \in DOMAIN cbLog[c] :
              /\ Count(cbLog[c], cbLog[c][j]) <= Owed(c, cbLog[c][j])
              /\ cbLog[c][j].http_response.uri = cbLog[c][j].mutant
        /\ dpc[c] = "returned" =>
              /\ Len(cbLog[c]) = Len(inputs[c])
              /\ Answered(c) = DOMAIN inputs[c]
              /\ \A i \in DOMAIN inputs[c] :
                    Count(cbLog[c], OwedPair(c, i)) = Owed(c, OwedPair(c, i))

\* A call with two different mutants has returned after delivering the second
\* mutant's result first
C1_Witness ==
    \E c \in Callers :
        /\ dpc[c] = "returned"
        /\ Len(inputs[c]) = 2
        /\ inputs[c][1] # inputs[c][2]
        /\ cbLog[c][1].mutant = inputs[c][2]

\* C2: the method does not return while an input has not had its callback:
\* once a call has returned, every task of it has ended, every result has been
\* taken from the pool, the callback has been invoked for every input and no
\* invocation is still in progress.
C2_ReturnsAfterEveryCallback ==
    \A c \in Callers :
        dpc[c] = "returned" =>
            /\ \A i \in DOMAIN inputs[c] :
                  /\ TaskEnded(c, i)
                  /\ \E j \in DOMAIN cbLog[c] : cbLog[c][j].mutant = inputs[c][i]
            /\ resq[c] = <<>>
            /\ Len(cbLog[c]) = Len(inputs[c])
            /\ ~ \E a \in cbActive : a.caller = c

\* A call with two mutants has returned
C2_Witness ==
    \E c \in Callers : dpc[c] = "returned" /\ Len(inputs[c]) = 2

\* C3: every callback invocation runs on the thread that called the method,
\* and at most one invocation of a call is in progress at any time.
C3_CallbacksOnCallerThread ==
    /\ \A a \in cbActive : a.thread = a.caller
    /\ \A c \in Callers : Cardinality({a \in cbActive : a.caller = c}) <= 1
    /\ \A c \in Callers : (\E a \in cbActive : a.caller = c) <=> dpc[c] = "callback"

\* A callback is in progress on the caller's thread while func is still
\* running for another mutant of the same call on a pool thread
C3_Witness ==
    \E c \in Callers, w \in Workers :
        /\ dpc[c] = "callback"
        /\ worker[w] # None
        /\ worker[w].caller = c

-----------------------------------------------------------------------------
\* Properties of UrlOpenerProxy (checked under SpecProxy)

\* The calls that have ended at their call site
EndedSites == {s \in Sites : spc[s] \in {"returned", "raised"}}

\* The underlying method of the call raised a single-request failure
SingleRequestFailure(call) ==
    call.attr.kind = "raise" /\ call.attr.exc.cls = "HTTPRequestException"

\* The underlying method of the call raised a failure of another class
AggregateFailure(call) ==
    call.attr.kind = "raise" /\ call.attr.exc.cls # "HTTPRequestException"

\* The plugin that owns the proxy a call went through
Owner(call) == call.proxy.plugin_inst

\* C4: under the default handle_url_error, every call whose underlying method
\* raises a single-request failure returns the 204 response for its target to
\* the call site, and exactly one error message naming the plugin and the
\* target is written.
C4_DefaultPolicySubstitutes ==
    \A s \in EndedSites :
        LET call == inflight[s]
        IN (SingleRequestFailure(call) /\ policy[Owner(call)] = "default") =>
              /\ spc[s] = "returned"
              /\ call.res = [kind |-> "return",
                             value |-> new_no_content_resp(
                                           TargetOf(call.args, call.kwargs))]
              /\ Len(call.errors) = 1
              /\ call.errors[1].name = get_name(Owner(call))
              /\ call.errors[1].uri = TargetOf(call.args, call.kwargs)

\* The same statement for the calls that pass the target as the first
\* positional argument: there it holds
C4_PositionalCalls ==
    \A s \in EndedSites :
        LET call == inflight[s]
        IN (SingleRequestFailure(call) /\ policy[Owner(call)] = "default"
            /\ Len(call.args) > 0) =>
              /\ call.res = [kind |-> "return",
                             value |-> new_no_content_resp(call.args[1])]
              /\ Len(call.errors) = 1
              /\ call.errors[1].name = get_name(Owner(call))
              /\ call.errors[1].uri = call.args[1]
              /\ call.errors[1].reason = call.attr.exc

\* C5: when handle_url_error returns re_raise = True for a single-request
\* failure, the call site receives that very exception, whatever result the
\* handler returned with it.
C5_ReRaiseKeepsFailure ==
    \A s \in EndedSites :
        LET call == inflight[s]
        IN (/\ SingleRequestFailure(call)
            /\ Len(call.handled) > 0
            /\ call.handled[1].ret[1]) =>
              /\ spc[s] = "raised"
              /\ call.res = [kind |-> "raise", value |-> call.attr.exc]

\* A handler answered (True, a response) and the call site got the exception
C5_Witness ==
    \E s \in Sites, u \in URIs :
        /\ spc[s] = "raised"
        /\ Len(inflight[s].handled) = 1
        /\ inflight[s].handled[1].ret = <<TRUE, HttpResponse(u)>>
        /\ inflight[s].res.value = inflight[s].attr.exc

\* C6: a failure that is not a single-request failure reaches the call site
\* as it was raised, and handle_url_error is not invoked for it, whatever the
\* plugin's handler and however the call passed its arguments.
C6_AggregatePropagates ==
    \A s \in EndedSites :
        LET call == inflight[s]
        IN AggregateFailure(call) =>
              /\ spc[s] = "raised"
              /\ call.res = [kind |-> "raise", value |-> call.attr.exc]
              /\ call.handled = <<>>
              /\ call.errors = <<>>

\* An aggregate failure left a call that passed its target positionally,
\* through the proxy of a plugin whose handler would have re-raised or not
C6_Witness ==
    \E s \in Sites :
        /\ spc[s] = "raised"
        /\ AggregateFailure(inflight[s])
        /\ Len(inflight[s].args) > 0
        /\ policy[Owner(inflight[s])] = "override"

\* C10: one call on the proxy invokes the underlying method exactly once, and
\* when that invocation raises a single-request failure handle_url_error is
\* invoked exactly once for it.
C10_OnceAndNoRetry ==
    \A s \in Sites :
        inflight[s] # None =>
            /\ Len(inflight[s].invoked) = 1
            /\ (s \in EndedSites /\ SingleRequestFailure(inflight[s])) =>
                  /\ Len(inflight[s].handled) = 1
                  /\ inflight[s].handled[1].exc = inflight[s].attr.exc

\* The part of C10 about the request: the underlying method is invoked once
\* per call and handle_url_error at most once, for the exception it raised
C10_NeverReissued ==
    \A s \in Sites :
        inflight[s] # None =>
            /\ Len(inflight[s].invoked) = 1
            /\ Len(inflight[s].handled) <= 1
            /\ \A k \in DOMAIN inflight[s].handled :
                  inflight[s].handled[k].exc = inflight[s].attr.exc

-----------------------------------------------------------------------------
\* Properties of kb_append_uniq and kb_append (checked under SpecKb)

\* The entries of the store, under any locations, that are info
StoredAt(info) ==
    {<<l, k>> \in (LocsA \X LocsB) \X (1..MaxKbCalls) :
        k \in DOMAIN kbStore[l] /\ kbStore[l][k] = info}

Stored(info) == Cardinality(StoredAt(info))

\* The threads that have written info to the store and not yet reported it
Reporting(info) ==
    {t \in KThreads :
        /\ kpc[t] # "idle"
        /\ kcall[t].info = info
        /\ kcall[t].added_to_kb}

\* The calls of klog that are kb_append_uniq(a, b, info, filter_by)
SameCalls(a, b, info, filter_by) ==
    {k \in DOMAIN klog :
        /\ klog[k].op = "kb_append_uniq"
        /\ klog[k].a = a /\ klog[k].b = b
        /\ klog[k].info = info /\ klog[k].filter_by = filter_by}

\* The calls of klog that write under the same locations or pass the same
\* finding, other than kb_append_uniq(a, b, info, filter_by) itself
OtherCalls(a, b, info, filter_by) ==
    {k \in DOMAIN klog \ SameCalls(a, b, info, filter_by) :
        (klog[k].a = a /\ klog[k].b = b) \/ klog[k].info = info}

Quiescent == \A t \in KThreads : kpc[t] = "idle"

\* C7: when kb_append_uniq has been called twice or more with the same
\* (location_a, location_b, info, filter_by), by one thread or by several at
\* once, and no other call touched those locations or that finding, the store
\* holds the finding once and it was reported once; while such calls are
\* still running it is never stored or reported twice.
C7_AppendUniqTwice ==
    \A a \in LocsA, b \in LocsB, info \in Infos, filter_by \in Filters :
        (/\ Cardinality(SameCalls(a, b, info, filter_by)) >= 2
         /\ OtherCalls(a, b, info, filter_by) = {}) =>
            /\ Count(kbStore[<<a, b>>], info) = 1
            /\ Stored(info) = 1
            /\ Count(reported, info) <= 1
            /\ Quiescent => Count(reported, info) = 1

\* Two threads have made the same kb_append_uniq call at the same time, and
\* both calls have returned
C7_Witness ==
    /\ Quiescent
    /\ Len(klog) = 2
    /\ klog[1].op = "kb_append_uniq"
    /\ klog[2] = [klog[1] EXCEPT !.concurrent = TRUE]
    /\ Count(reported, klog[1].info) = 1

\* C8: a finding is saved and reported together. In every state, each finding
\* is in the store exactly as many times as it was reported, but for the
\* calls that have saved it and are about to report it; so no finding is
\* ever reported without being stored, and when no call is running the store
\* and the reports agree. A kb_append_uniq call that did not save its finding
\* does not report it.
C8_StoredAndReportedTogether ==
    \A info \in Infos :
        /\ Stored(info) = Count(reported, info) + Cardinality(Reporting(info))
        /\ Count(reported, info) <= Stored(info)
        /\ Quiescent => Stored(info) = Count(reported, info)

\* A finding was saved and reported by kb_append, then refused by
\* kb_append_uniq, which reported nothing
C8_Witness ==
    /\ Quiescent
    /\ Len(klog) = 2
    /\ klog[1].op = "kb_append"
    /\ klog[2].op = "kb_append_uniq"
    /\ klog[2].info = klog[1].info
    /\ klog[2].a = klog[1].a /\ klog[2].b = klog[1].b
    /\ Len(reported) = 1

-----------------------------------------------------------------------------
\* Properties of encode_as_multipart (checked under SpecEncode)

\* The parts of a body in the order they are written: the name of each and
\* whether it is a file part (it carries a filename)
RECURSIVE PartsFrom(_, _)
PartsFrom(body, i) ==
    IF i > Len(body) THEN <<>>
    ELSE IF body[i] = NameHeader
    THEN <<[name |-> body[i + 1],
            file |-> body[i + 2] = "\"; filename=\""]>>
         \o PartsFrom(body, i + 3)
    ELSE PartsFrom(body, i + 1)

Parts(body) == PartsFrom(body, 1)

PartNames(body) == [k \in DOMAIN Parts(body) |-> Parts(body)[k].name]

\* The names of the tokens of a sequence of tokens, as bytes
NamesOf(tokens) == [k \in DOMAIN tokens |-> smart_str(tokens[k].name)]

\* The token holds an open file object or an object with isFile
HoldsFile(token, closed) ==
    \/ token.value.kind = "file" /\ token.value.fd \notin closed
    \/ token.value.kind = "isFile"

\* C9 as stated: the parts of the body are in the order of the tokens of the
\* container.
C9_PartsInTokenOrder ==
    encoded # None => PartNames(encoded.body) = NamesOf(container)

\* C9: the parts of the tokens that hold no open file (strings, other objects,
\* closed file objects) come first, in the order of the tokens, as parts
\* without a filename; the parts of the tokens that hold an open file follow,
\* in the order of the tokens, as file parts.
C9_VarsThenFilesInTokenOrder ==
    encoded # None =>
        LET plain == SelectSeq(container,
                               LAMBDA t : ~ HoldsFile(t, encoded.closed))
            withFile == SelectSeq(container,
                                  LAMBDA t : HoldsFile(t, encoded.closed))
        IN Parts(encoded.body) =
              [k \in DOMAIN plain |->
                  [name |-> smart_str(plain[k].name), file |-> FALSE]]
              \o [k \in DOMAIN withFile |->
                     [name |-> smart_str(withFile[k].name), file |-> TRUE]]

\* A container of an open file token, a string token and a closed file token,
\* in that order and under different names, has been encoded
C9_Witness ==
    /\ encoded # None
    /\ Len(container) = 3
    /\ container[1].value = File("f1") /\ "f1" \notin encoded.closed
    /\ container[2].value = Str("bob")
    /\ container[3].value = File("f2") /\ "f2" \in encoded.closed
    /\ container[1].name # container[2].name
    /\ container[2].name = container[3].name

\* The parts of a body that carry no filename, in the order they are written:
\* the name and the value of each
RECURSIVE ScalarPartsFrom(_, _)
ScalarPartsFrom(body, i) ==
    IF i > Len(body) THEN <<>>
    ELSE IF body[i] = NameHeader /\ body[i + 2] = "\""
    THEN <<[name |-> body[i + 1], value |-> body[i + 4]]>>
         \o ScalarPartsFrom(body, i + 5)
    ELSE ScalarPartsFrom(body, i + 1)

ScalarParts(body) == ScalarPartsFrom(body, 1)

\* How many pieces of a body are the piece x
Pieces(body, x) == Cardinality({i \in DOMAIN body : body[i] = x})

\* The token holds a file object that was closed when the body was encoded
HoldsClosedFile(token, closed) ==
    token.value.kind = "file" /\ token.value.fd \in closed

\* C11: a token holding a closed file object is encoded, without an error, as
\* a part without filename under the token's name and with an empty value;
\* the body has a filename and a Content-Type header only for the tokens that
\* hold an open file object or an object with isFile.
C11_ClosedFileIsEmptyScalar ==
    encoded # None =>
        LET plain == SelectSeq(container,
                               LAMBDA t : ~ HoldsFile(t, encoded.closed))
            withFile == SelectSeq(container,
                                  LAMBDA t : HoldsFile(t, encoded.closed))
        IN /\ encoded.kind = "encoded"
           /\ Len(ScalarParts(encoded.body)) = Len(plain)
           /\ \A k \in DOMAIN plain :
                 HoldsClosedFile(plain[k], encoded.closed) =>
                    ScalarParts(encoded.body)[k] =
                       [name |-> smart_str(plain[k].name), value |-> ""]
           /\ Pieces(encoded.body, "\"; filename=\"") = Len(withFile)
           /\ Pieces(encoded.body, "Content-Type: ") = Len(withFile)

\* A container whose only token holds a closed file object has been encoded
C11_Witness ==
    /\ encoded # None
    /\ Len(container) = 1
    /\ container[1].value = File("f1")
    /\ "f1" \in encoded.closed
    /\ Parts(encoded.body) =
          <<[name |-> smart_str(container[1].name), file |-> FALSE]>>

-----------------------------------------------------------------------------
\* Properties of Plugin.__eq__ (checked under SpecEq)

\* The two plugin instances are configured differently
ConfiguredDifferently(a, b) ==
    /\ uri_opener[a] # None /\ uri_opener[b] # None
    /\ uri_opener[a].url_opener # uri_opener[b].url_opener
    /\ worker_pool[a] # worker_pool[b]

\* C12 as stated: two plugins compare equal exactly when they are of the same
\* class.
C12_EqualIffSameClass ==
    eqres # None =>
        (eqres.result <=> klass[eqres.self] = klass[eqres.other])

\* C12: two plugins compare equal exactly when their classes have the same
\* name, whatever url opener and worker pool each has: instances of one class
\* are equal, instances of classes with different names are not, instances of
\* different classes that share a name are equal; the comparison is
\* reflexive, symmetric and transitive.
C12_EqualIffSameClassName ==
    /\ eqres # None =>
          (eqres.result <=> klass[eqres.self].name = klass[eqres.other].name)
    /\ \A a \in Instances, b \in Instances :
          /\ __eq__(a, b) <=> klass[a].name = klass[b].name
          /\ klass[a] = klass[b] => __eq__(a, b)
          /\ __eq__(a, a)
          /\ __eq__(a, b) => __eq__(b, a)
          /\ \A c \in Instances : __eq__(a, b) /\ __eq__(b, c) => __eq__(a, c)

\* Two instances of one class, with different url openers and worker pools,
\* have been compared and found equal
C12_Witness ==
    /\ eqres # None
    /\ eqres.self # eqres.other
    /\ klass[eqres.self] = klass[eqres.other]
    /\ ConfiguredDifferently(eqres.self, eqres.other)
    /\ eqres.result

-----------------------------------------------------------------------------
\* Properties of set_url_opener and set_worker_pool (checked under SpecProxy)

\* Each plugin's _uri_opener is a proxy for the url opener last handed to
\* set_url_opener, with that plugin as its plugin instance
ActiveIsLatest ==
    \A p \in Plugins :
        IF given[p] = <<>>
        THEN uri_opener[p] = None
        ELSE uri_opener[p] = [kind |-> "proxy", url_opener |-> given[p][1],
                              plugin_inst |-> p]

\* A call that starts goes to the url opener last handed to the plugin
CallsReachLatest ==
    \A s \in Sites :
        (spc[s] = "idle" /\ spc'[s] = "attr") =>
            /\ Len(inflight'[s].invoked) = 1
            /\ <<inflight'[s].invoked[1].opener>> = given[pluginOf[s]]

\* A step that changes a worker pool leaves every _uri_opener as it is
PoolLeavesOpener ==
    worker_pool' # worker_pool => (uri_opener' = uri_opener /\ given' = given)

\* C13: after any calls of set_url_opener, a plugin's _uri_opener is a proxy
\* bound to the plugin and to the url opener of the latest call, the calls
\* made through it from then on reach that url opener only, and
\* set_worker_pool does not change it.
C13_ActiveTransportIsLatest ==
    /\ []ActiveIsLatest
    /\ [][CallsReachLatest /\ PoolLeavesOpener]_vars

\* A plugin was handed a second url opener while a call made through the
\* first was running, and has a worker pool
C13_Witness ==
    \E s \in Sites :
        /\ spc[s] = "attr"
        /\ inflight[s].proxy.url_opener = "x1"
        /\ uri_opener[pluginOf[s]] = [kind |-> "proxy", url_opener |-> "x2",
                                      plugin_inst |-> pluginOf[s]]
        /\ worker_pool[pluginOf[s]] # None

-----------------------------------------------------------------------------
\* Properties of _send_mutants_in_threads over the proxy (checked under Spec)

\* The tasks of c's call that have ended
EndedTasks(c) == {i \in DOMAIN inputs[c] : TaskEnded(c, i)}

\* handle_url_error was called for the request and answered re_raise = True
ReRaised(call) == Len(call.handled) > 0 /\ call.handled[1].ret[1]

\* No request of c's call has failed but by a single-request failure
OnlySingleRequestFailures(c) ==
    \A i \in EndedTasks(c) : ~ AggregateFailure(produced[c][i])

\* No handler has answered re_raise = True for a request of c's call
NoneReRaised(c) == \A i \in EndedTasks(c) : ~ ReRaised(produced[c][i])

\* C14 as stated: a call whose requests fail by single-request failures only
\* is not left by an exception, and returns after one callback per input.
C14_NoPerRequestFailure ==
    \A c \in Callers :
        OnlySingleRequestFailures(c) =>
            /\ dpc[c] # "raised"
            /\ dpc[c] = "returned" => Len(cbLog[c]) = Len(inputs[c])

\* C14: a call whose requests fail by single-request failures only, each
\* answered by handle_url_error with re_raise = False, is not left by an
\* exception; when it has returned, the callback has been invoked once per
\* input, and for each failed request with the result the handler returned.
\* A call that an exception has left was left by the exception of one of its
\* requests: an aggregate failure, or a single-request failure that the
\* handler asked to re-raise.
C14_SuppressedFailuresDoNotFail ==
    \A c \in Callers :
        /\ (OnlySingleRequestFailures(c) /\ NoneReRaised(c)) =>
              /\ dpc[c] # "raised"
              /\ dexc[c] = None
              /\ dpc[c] = "returned" =>
                    /\ Len(cbLog[c]) = Len(inputs[c])
                    /\ \A i \in DOMAIN inputs[c] :
                          SingleRequestFailure(produced[c][i]) =>
                             /\ Len(produced[c][i].handled) = 1
                             /\ Count(cbLog[c],
                                      [mutant |-> inputs[c][i],
                                       http_response |->
                                          produced[c][i].handled[1].ret[2]])
                                   = Owed(c, OwedPair(c, i))
        /\ dpc[c] = "raised" =>
              \E i \in EndedTasks(c) :
                 /\ AggregateFailure(produced[c][i]) \/ ReRaised(produced[c][i])
                 /\ dexc[c] = produced[c][i].attr.exc

\* A call with two mutants has returned: the request of the first failed and
\* the callback got the 204 response for it, the request of the second
\* succeeded
C14_Witness ==
    \E c \in Callers :
        /\ dpc[c] = "returned"
        /\ Len(inputs[c]) = 2
        /\ SingleRequestFailure(produced[c][1])
        /\ produced[c][2].attr.kind = "return"
        /\ \E j \in DOMAIN cbLog[c] :
              cbLog[c][j] = [mutant |-> inputs[c][1],
                             http_response |-> new_no_content_resp(inputs[c][1])]

-----------------------------------------------------------------------------
\* Properties of the except block of meth (checked under SpecProxy)

\* C15: for every call whose underlying method raises a single-request
\* failure, however its arguments were passed, handle_url_error of the owning
\* plugin is called once with the target of the call, and the call ends with
\* the result the handler returned or with the exception that was raised,
\* never with another exception.
C15_HandlerForEveryCallShape ==
    \A s \in EndedSites :
        LET call == inflight[s]
        IN SingleRequestFailure(call) =>
              /\ Len(call.handled) = 1
              /\ call.handled[1].plugin = Owner(call)
              /\ call.handled[1].uri = TargetOf(call.args, call.kwargs)
              /\ \/ call.res = [kind |-> "return",
                                value |-> call.handled[1].ret[2]]
                 \/ call.res = [kind |-> "raise", value |-> call.attr.exc]

\* The same statement for the calls that pass the target as the first
\* positional argument, where uri = args[0] finds it
C15_PositionalCalls ==
    \A s \in EndedSites :
        LET call == inflight[s]
        IN (SingleRequestFailure(call) /\ Len(call.args) > 0) =>
              /\ Len(call.handled) = 1
              /\ call.handled[1].plugin = Owner(call)
              /\ call.handled[1].uri = call.args[1]
              /\ \/ call.res = [kind |-> "return",
                                value |-> call.handled[1].ret[2]]
                 \/ call.res = [kind |-> "raise", value |-> call.attr.exc]

-----------------------------------------------------------------------------
\* Properties of _send_mutants_in_threads in time (checked under SpecLive)

\* A request of c's call has ended by an aggregate failure
AggregateFailed(c) ==
    \E i \in EndedTasks(c) : AggregateFailure(produced[c][i])

\* A call that had an aggregate failure has not returned; a call that an
\* exception has left has no callback running, and if no handler asked to
\* re-raise, the exception that left it is the aggregate failure of one of
\* its requests
AggregateIsFatal ==
    \A c \in Callers :
        /\ AggregateFailed(c) => dpc[c] # "returned"
        /\ dpc[c] = "raised" =>
              /\ dexc[c] # None
              /\ ~ \E a \in cbActive : a.caller = c
              /\ NoneReRaised(c) =>
                    \E i \in EndedTasks(c) :
                       /\ AggregateFailure(produced[c][i])
                       /\ dexc[c] = produced[c][i].attr.exc

\* Once an exception has left a call, the call invokes no callback any more
NoCallbackAfterRaise ==
    \A c \in Callers :
        dpc[c] = "raised" =>
            /\ dpc'[c] = "raised"
            /\ cbLog'[c] = cbLog[c]
            /\ dexc'[c] = dexc[c]
            /\ ~ \E a \in cbActive' : a.caller = c

\* C16: a call with a request that ended by an aggregate failure never
\* returns: an exception leaves it, the aggregate failure itself unless the
\* re-raised failure of another request was taken first; from then on the
\* call invokes no callback.
C16_AggregateIsFatalToDispatch ==
    /\ []AggregateIsFatal
    /\ [][NoCallbackAfterRaise]_vars
    /\ \A c \in Callers : AggregateFailed(c) ~> (dpc[c] = "raised")

\* An aggregate failure has left a call with two mutants before any callback,
\* while the response for the other mutant waits and is never delivered
C16_Witness ==
    \E c \in Callers :
        /\ dpc[c] = "raised"
        /\ dexc[c].cls = "ScanMustStopException"
        /\ Len(inputs[c]) = 2
        /\ cbLog[c] = <<>>
        /\ resq[c] # <<>>
        /\ Head(resq[c]).ok

\* C17: when pool threads and callers keep running, func ends and callbacks
\* return, every call ends: it returns, or the exception func raised for one
\* of its mutants leaves it. Calls made at the same time on one plugin or on
\* two plugins with the same pool do not block each other.
C17_EveryDispatchEnds ==
    \A c \in Callers :
        (dpc[c] # "idle") ~>
            \/ dpc[c] = "returned"
            \/ /\ dpc[c] = "raised"
               /\ \E i \in EndedTasks(c) : produced[c][i].res.kind = "raise"

\* Two calls on the same plugin: one has returned while func still runs on a
\* pool thread for the other
C17_Witness ==
    \E c \in Callers, d \in Callers, w \in Workers :
        /\ c # d
        /\ callerPlugin[c] = callerPlugin[d]
        /\ dpc[c] = "returned" /\ Len(inputs[c]) = 1
        /\ dpc[d] = "next"
        /\ worker[w] # None /\ worker[w].caller = d

-----------------------------------------------------------------------------
\* Properties of the proxies of several plugins (checked under SpecProxy)

\* The handler calls made for the call of site s
HandlerCalls(s) ==
    IF inflight[s] = None THEN {}
    ELSE {inflight[s].handled[k] : k \in DOMAIN inflight[s].handled}

\* C18: a call made by a call site of a plugin goes through that plugin's
\* proxy, and for a single-request failure of it only that plugin's
\* handle_url_error is called: what is written and returned is what that
\* plugin's handler writes and returns, the call site gets that outcome, and
\* no handler call made for a call of another site is for this failure.
C18_HandledByOwnerOnly ==
    \A s \in Sites :
        inflight[s] # None =>
            LET call == inflight[s]
                p == pluginOf[s]
            IN /\ Owner(call) = p
               /\ \A h \in HandlerCalls(s) :
                     /\ h.plugin = p
                     /\ h.exc = call.attr.exc
                     /\ policy[p] = "default" =>
                           /\ h.ret = <<FALSE, new_no_content_resp(h.uri)>>
                           /\ Len(call.errors) = 1
                     /\ policy[p] = "override" => call.errors = <<>>
                     /\ call.res = IF h.ret[1]
                                   THEN [kind |-> "raise", value |-> h.exc]
                                   ELSE [kind |-> "return", value |-> h.ret[2]]
               /\ \A k \in DOMAIN call.errors :
                     call.errors[k].name = get_name(p)
               /\ \A t \in Sites \ {s} : \A h \in HandlerCalls(t) :
                     call.attr.kind = "raise" => h.exc # call.attr.exc

\* Two plugins with proxies for the same url opener have each made a call
\* that failed while the other was running: the first plugin's base handler
\* answered the one, the second plugin's own handler the other
C18_Witness ==
    /\ uri_opener["pA"] # None /\ uri_opener["pB"] # None
    /\ uri_opener["pA"].url_opener = uri_opener["pB"].url_opener
    /\ policy["pA"] = "default" /\ policy["pB"] = "override"
    /\ spc["s1"] = "returned" /\ spc["s2"] = "raised"
    /\ SingleRequestFailure(inflight["s1"])
    /\ SingleRequestFailure(inflight["s2"])
    /\ Len(inflight["s1"].handled) = 1 /\ inflight["s1"].handled[1].plugin = "pA"
    /\ Len(inflight["s2"].handled) = 1 /\ inflight["s2"].handled[1].plugin = "pB"
    /\ inflight["s1"].proxy.url_opener = inflight["s2"].proxy.url_opener

-----------------------------------------------------------------------------
\* Properties of repeated encoding (checked under SpecEncode)

\* The file objects that are closed now
ClosedNow == {f \in FileIds : files[f].closed}

\* C19: encoding the same container with the same boundary again gives the
\* same bytes, wherever the file objects were left by their owners or by the
\* encoding before, as long as none of them was closed in between: the result
\* of two calls in a row is the same, and so is that of a call made now.
C19_EncodeIsRepeatable ==
    encoded # None =>
        /\ (/\ encoded.prev # None
            /\ encoded.prev.boundary = encoded.boundary
            /\ encoded.prev.closed = encoded.closed) =>
               encoded.body = encoded.prev.body
        /\ ClosedNow = encoded.closed =>
               encode_as_multipart(container, encoded.boundary) = encoded.body

\* A container with an open file object was encoded twice with the same
\* boundary; the second call found the file object at its end, where the
\* first had left it, and its content is in the body
C19_Witness ==
    /\ encoded # None
    /\ encoded.prev # None
    /\ encoded.prev.boundary = encoded.boundary
    /\ encoded.prev.closed = encoded.closed
    /\ \E k \in DOMAIN container :
          /\ container[k].value = File("f1")
          /\ "f1" \notin encoded.closed
          /\ files["f1"].pos = Len(FileContent("f1"))
    /\ \E i \in DOMAIN encoded.body : encoded.body[i] = "hi"

====
